---- MODULE Spec2Model ----
(***************************************************************************)
(* A-Maze-ing: the maze engine of src/generator.py (MazeGenerator) as a    *)
(* state machine.  A cell is the pair <<x, y>>; grid[<<x, y>>] is the wall  *)
(* mask the code keeps in self.grid[y][x] (N=1, E=2, S=4, W=8).             *)
(* self.pattern and the carver's visited list are only ever tested for     *)
(* membership, so they are kept as sets of cells.                           *)
(***************************************************************************)
EXTENDS Integers, Sequences, FiniteSets, TLC

VARIABLES
    width,        \* self.width
    height,       \* self.height
    is_perfect,   \* self.is_perfect
    use_pattern,  \* whether the caller calls add_pattern() before generate()
    pattern,      \* self.pattern
    grid,         \* self.grid
    stack,        \* generate(): stack
    visited,      \* generate(): visited
    pc,           \* position of the caller / of generate()
    attempt,      \* non_perfect(): number of loop iterations begun
    random_x,     \* non_perfect(): local of the current iteration (-1: none)
    random_y,     \* non_perfect(): local of the current iteration (-1: none)
    direction,    \* non_perfect(): local of the current iteration (-1: none)
    pushes,       \* history: how many times each cell was put on the stack
    entered,      \* history: cells pushed by the carver as newly entered cells
    tree_grid,    \* history: the grid as the carving loop left it
    opened,       \* history: number of walls the braider has opened
    start,        \* solve(): argument start
    end,          \* solve(): argument end
    solution,     \* solve(): what the call came to (NoOutcome before it)
    seed,         \* __init__: argument seed, <<>> for None, <<s>> for the int s
    rng,          \* the module-level generator of  random: the stream it is
                  \* on (<<>>: never seeded) and the requests made of it
    tape,         \* what the seeded streams have answered so far
    choices,      \* history: the draws of a seeded instance, as <<n, v>>
    run,          \* 1: the first run; 2: a second run with the same arguments
    first,        \* history: what the first run produced
    file,         \* save_to_file(): the characters written
    solution_path,            \* MazeVisualizer.solution_path
    show_solution,            \* MazeVisualizer.show_solution
    is_animating,             \* MazeVisualizer.is_animating
    animation_progress,       \* MazeVisualizer.animation_progress
    animation_frame_counter,  \* MazeVisualizer.animation_frame_counter
    current_palette,          \* MazeVisualizer.current_palette
    last_key,     \* history: the last key handled (0: none)
    ticks         \* history: loop-hook calls since the last key

vars == <<width, height, is_perfect, use_pattern, pattern, grid, stack,
          visited, pc, attempt, random_x, random_y, direction, pushes,
          entered, tree_grid, opened, start, end, solution, seed, rng, tape,
          choices, run, first, file, solution_path, show_solution,
          is_animating, animation_progress, animation_frame_counter,
          current_palette, last_key, ticks>>

-----------------------------------------------------------------------------
(* Bounds of the model. *)

\* Every width 1..MaxW and height 1..MaxH is generated, with and without
\* the pattern, in both modes.
MaxW == 3
MaxH == 3

\* Larger grids, generated with the pattern overlay only: grids whose origin
\* is a pattern cell (7x5, 7x6, 7x1), grids of one column or one row with at
\* least 20 or 40 cells, and grids of at least 20 cells whose free region has
\* cycles for the braider to close (2x10, 3x8), and a grid whose pattern cuts
\* free cells off from a free origin (5x5).
ExtraDims ==
    { <<7, 5>>, <<7, 6>>, <<7, 1>>, <<1, 20>>, <<1, 40>>, <<20, 1>>,
      <<2, 10>>, <<3, 8>>, <<5, 5>> }

\* solve() is run on every grid of width 1..MaxSolveW and height
\* 1..MaxSolveH, with and without the pattern, in both modes, and on the
\* grids of SolveExtraDims with the pattern; start and end range over the
\* grid and the ring of coordinates one step outside it.
MaxSolveW == 3
MaxSolveH == 2
SolveExtraDims == { <<3, 8>>, <<2, 10>>, <<1, 20>> }

-----------------------------------------------------------------------------
(* Constants of the program. *)

\* __init__: every cell starts fully walled.
FullMask == 15

\* add_pattern(): p_width, p_heigth and the template, 1 for 'X', 0 for '.'.
p_width == 7
p_heigth == 5
template ==
    << <<1, 0, 1, 0, 1, 1, 1>>,
       <<1, 0, 1, 0, 0, 0, 1>>,
       <<1, 1, 1, 0, 1, 1, 1>>,
       <<0, 0, 1, 0, 1, 0, 0>>,
       <<0, 0, 1, 0, 1, 1, 1>> >>

\* The directions in the order W, S, E, N.
directions_Reversed ==
    << [key |-> "W", dx |-> -1, dy |-> 0,  wall_bit |-> 8],
       [key |-> "S", dx |-> 0,  dy |-> 1,  wall_bit |-> 4],
       [key |-> "E", dx |-> 1,  dy |-> 0,  wall_bit |-> 2],
       [key |-> "N", dx |-> 0,  dy |-> -1, wall_bit |-> 1] >>

\* __init__: self.directions, in the insertion order the dict iterates in.
directions ==
    << [key |-> "N", dx |-> 0,  dy |-> -1, wall_bit |-> 1],
       [key |-> "E", dx |-> 1,  dy |-> 0,  wall_bit |-> 2],
       [key |-> "S", dx |-> 0,  dy |-> 1,  wall_bit |-> 4],
       [key |-> "W", dx |-> -1, dy |-> 0,  wall_bit |-> 8] >>

\* __init__: self.opposite.
opposite(b) ==
    CASE b = 1 -> 4
      [] b = 2 -> 8
      [] b = 4 -> 1
      [] b = 8 -> 2

\* non_perfect(): one extra wall is attempted per 20 cells.
BraidDivisor == 20

-----------------------------------------------------------------------------
(* Helpers. *)

\* solve() has not been called: nothing raised, no path.
NoOutcome == [raised |-> FALSE, path |-> <<>>, reads |-> {}]

Cells(w, h) == (0 .. w - 1) \X (0 .. h - 1)

InBounds(x, y, w, h) == 0 <= x /\ x < w /\ 0 <= y /\ y < h

origin == <<0, 0>>

\* Python's  (m & b) != 0  for a single bit b.
HasBit(m, b) == (m \div b) % 2 = 1

\* add_pattern(): the cells appended to self.pattern.
\* An overlay that rounds the offsets towards zero.
PatternCells_Trunc(w, h) ==
    LET Half(n) == IF n < 0 THEN 0 - ((0 - n) \div 2) ELSE n \div 2
        start_x == Half(w - 7)
        start_y == Half(h - 5)
    IN  { <<start_x + (i - 1), start_y + (j - 1)>> :
            <<i, j>> \in { p \in (1 .. p_width) \X (1 .. p_heigth) :
                             /\ template[p[2]][p[1]] = 1
                             /\ InBounds(start_x + (p[1] - 1),
                                         start_y + (p[2] - 1), w, h) } }

PatternCells(w, h) ==
    LET start_x == (w - 7) \div 2
        start_y == (h - 5) \div 2
    IN  { <<start_x + (i - 1), start_y + (j - 1)>> :
            <<i, j>> \in { p \in (1 .. p_width) \X (1 .. p_heigth) :
                             /\ template[p[2]][p[1]] = 1
                             /\ InBounds(start_x + (p[1] - 1),
                                         start_y + (p[2] - 1), w, h) } }

\* A carver that forgets the pattern when it seeds  visited.
InitialVisited_NoPattern(pat) == {origin}

\* A carver that forgets the origin when it seeds  visited.
InitialVisited_NoOrigin(pat) == pat

\* generate(), line 72: visited = [(0, 0)] + self.pattern
InitialVisited(pat) == {origin} \cup pat

\* generate(): the list  neighbors  built for the cell on top of the stack,
\* as triples <<new_x, new_y, wall_bit>> in the order of self.directions.
NeighborOf(cur, d) == <<cur[1] + d.dx, cur[2] + d.dy, d.wall_bit>>

\* A bounds test that is off by one: the last column is never entered.
Unvisited_NoLastColumn(cur, d) ==
    /\ InBounds(cur[1] + d.dx, cur[2] + d.dy, width - 1, height)
    /\ <<cur[1] + d.dx, cur[2] + d.dy>> \notin visited

Unvisited(cur, d) ==
    /\ InBounds(cur[1] + d.dx, cur[2] + d.dy, width, height)
    /\ <<cur[1] + d.dx, cur[2] + d.dy>> \notin visited

UnvisitedDirs(cur) == SelectSeq(directions, LAMBDA d : Unvisited(cur, d))

neighbors(cur) ==
    [i \in 1 .. Len(UnvisitedDirs(cur)) |-> NeighborOf(cur, UnvisitedDirs(cur)[i])]

\* A carver that clears the wall of the cell it leaves only.
CarveEdge_OneSided(g, a, b, wall_break) ==
    [g EXCEPT ![a] = g[a] - wall_break]

\* generate(), lines 89-90: both sides of the chosen edge lose their bit.
CarveEdge(g, a, b, wall_break) ==
    [g EXCEPT ![a] = g[a] - wall_break,
              ![b] = g[b] - opposite(wall_break)]

\* non_perfect(): break_wall.
break_wall(w, h) == (w * h) \div BraidDivisor

\* non_perfect(): the two cells and the bit of the wall an attempt looks at.
BraidOther(rx, ry, dir) == IF dir = 0 THEN <<rx + 1, ry>> ELSE <<rx, ry + 1>>

BraidBit(dir) == IF dir = 0 THEN 2 ELSE 4

\* A braider whose second branch is not an else: an attempt tries the east
\* wall and the south wall of the drawn cell.
BraidGrid_BothAxes(g, pat, rx, ry, dir) ==
    LET east == IF /\ <<rx, ry>> \notin pat
                   /\ <<rx + 1, ry>> \notin pat
                   /\ HasBit(g[<<rx, ry>>], 2)
                THEN CarveEdge(g, <<rx, ry>>, <<rx + 1, ry>>, 2)
                ELSE g
    IN  IF /\ <<rx, ry>> \notin pat
           /\ <<rx, ry + 1>> \notin pat
           /\ HasBit(east[<<rx, ry>>], 4)
        THEN CarveEdge(east, <<rx, ry>>, <<rx, ry + 1>>, 4)
        ELSE east

\* A braider that subtracts without testing that the wall stands.
BraidGrid_NoWallTest(g, pat, rx, ry, dir) ==
    IF /\ <<rx, ry>> \notin pat
       /\ BraidOther(rx, ry, dir) \notin pat
    THEN CarveEdge(g, <<rx, ry>>, BraidOther(rx, ry, dir), BraidBit(dir))
    ELSE g

\* non_perfect(), lines 109-122: the grid after one attempt.
BraidGrid(g, pat, rx, ry, dir) ==
    IF /\ <<rx, ry>> \notin pat
       /\ BraidOther(rx, ry, dir) \notin pat
       /\ HasBit(g[<<rx, ry>>], BraidBit(dir))
    THEN CarveEdge(g, <<rx, ry>>, BraidOther(rx, ry, dir), BraidBit(dir))
    ELSE g

-----------------------------------------------------------------------------
(* The runs the model explores. *)

Scenarios ==
    { [w |-> d[1], h |-> d[2], pat |-> p, perfect |-> m] :
        d \in (1 .. MaxW) \X (1 .. MaxH), p \in BOOLEAN, m \in BOOLEAN }
    \cup
    { [w |-> d[1], h |-> d[2], pat |-> TRUE, perfect |-> m] :
        d \in ExtraDims, m \in BOOLEAN }

\* MazeGenerator.__init__
InitOf(s) ==
    /\ width = s.w
    /\ height = s.h
    /\ is_perfect = s.perfect
    /\ use_pattern = s.pat
    /\ pattern = {}
    /\ grid = [c \in Cells(s.w, s.h) |-> FullMask]
    /\ stack = <<>>
    /\ visited = {}
    /\ pc = "new"
    /\ attempt = 0
    /\ random_x = -1
    /\ random_y = -1
    /\ direction = -1
    /\ pushes = [c \in Cells(s.w, s.h) |-> 0]
    /\ entered = {}
    /\ tree_grid = [c \in Cells(s.w, s.h) |-> FullMask]
    /\ opened = 0
    /\ start = origin
    /\ end = origin
    /\ solution = NoOutcome
    /\ file = <<>>

\* Before any seeding the module-level generator is on no seed's stream.
Unseeded == [stream |-> <<>>, hist |-> <<>>]

Seeded_Never(r, sd) == r

\* MazeGenerator.__init__, lines 24-25: random.seed(seed) unless seed is None.
Seeded(r, sd) == IF sd # <<>> THEN [stream |-> sd, hist |-> <<>>] ELSE r

\* MazeVisualizer.__init__ and the first set_maze_data(): nothing is shown
\* or animated.
InitViz(path) ==
    /\ solution_path = path
    /\ show_solution = FALSE
    /\ is_animating = FALSE
    /\ animation_progress = 0
    /\ animation_frame_counter = 0
    /\ current_palette = 0
    /\ last_key = 0
    /\ ticks = 0

\* a_maze_ing.py constructs MazeGenerator without a seed.
Init ==
    /\ \E s \in Scenarios : InitOf(s)
    /\ seed = <<>>
    /\ rng = Unseeded
    /\ tape = {}
    /\ choices = <<>>
    /\ run = 1
    /\ first = <<>>
    /\ InitViz(<<>>)

solveVars == <<start, end, solution>>
braidLocals == <<attempt, random_x, random_y, direction>>
rngVars == <<seed, rng, tape, choices>>
runVars == <<run, first>>
vizVars == <<solution_path, show_solution, is_animating, animation_progress,
             animation_frame_counter, current_palette, last_key, ticks>>

\* The draws ds (records [n, v]: a request for one of n values, answered v)
\* made of the module-level generator in one step.  A stream that was asked
\* the same requests before gives the same answer again; an answer given for
\* the first time is any of the n values; the unseeded generator answers
\* anything.
Requests(ds, i) == [j \in 1 .. i |-> ds[j].n]

Consume(ds) ==
    /\ \A i \in 1 .. Len(ds) :
          rng.stream # <<>> =>
              \A t \in tape :
                  ( /\ t.stream = rng.stream
                    /\ t.hist = rng.hist \o Requests(ds, i - 1)
                    /\ t.n = ds[i].n ) => ds[i].v = t.v
    /\ rng' = IF rng.stream = <<>> THEN rng
              ELSE [rng EXCEPT !.hist = @ \o Requests(ds, Len(ds))]
    /\ tape' = IF rng.stream = <<>> THEN tape
               ELSE tape \cup { [stream |-> rng.stream,
                                 hist |-> rng.hist \o Requests(ds, i - 1),
                                 n |-> ds[i].n,
                                 v |-> ds[i].v] : i \in 1 .. Len(ds) }

\* the draws of this instance
Draws(ds) ==
    /\ Consume(ds)
    /\ choices' = IF seed = <<>> THEN choices
                  ELSE choices \o [j \in 1 .. Len(ds) |-> <<ds[j].n, ds[j].v>>]
    /\ UNCHANGED seed

\* MazeGenerator.add_pattern
AddPattern ==
    /\ pc = "new"
    /\ use_pattern
    /\ pattern' = pattern \cup PatternCells(width, height)
    /\ pc' = "ready"
    /\ UNCHANGED <<width, height, is_perfect, use_pattern, grid, stack, visited,
                   pushes, entered, tree_grid, opened>>
    /\ UNCHANGED braidLocals
    /\ UNCHANGED solveVars
    /\ UNCHANGED rngVars
    /\ UNCHANGED <<runVars, file, vizVars>>

\* generate(), lines 71-72
GenerateBegin ==
    /\ \/ pc = "ready"
       \/ pc = "new" /\ ~use_pattern
    /\ stack' = <<origin>>
    /\ visited' = InitialVisited(pattern)
    /\ pushes' = [pushes EXCEPT ![origin] = @ + 1]
    /\ pc' = "carve"
    /\ UNCHANGED <<width, height, is_perfect, use_pattern, pattern, grid,
                   entered, tree_grid, opened>>
    /\ UNCHANGED braidLocals
    /\ UNCHANGED solveVars
    /\ UNCHANGED rngVars
    /\ UNCHANGED <<runVars, file, vizVars>>

\* generate(), lines 74-93: one iteration that finds an unvisited neighbor
Carve ==
    /\ pc = "carve"
    /\ Len(stack) > 0
    /\ LET cur == stack[Len(stack)]
           nb  == neighbors(cur)
       IN  /\ Len(nb) > 0
           /\ \E i \in 1 .. Len(nb) :
                LET new == <<nb[i][1], nb[i][2]>>
                    wall_break == nb[i][3]
                IN  /\ grid' = CarveEdge(grid, cur, new, wall_break)
                    /\ visited' = visited \cup {new}
                    /\ stack' = Append(stack, new)
                    /\ pushes' = [pushes EXCEPT ![new] = @ + 1]
                    /\ entered' = entered \cup {new}
                    /\ Draws(<< [n |-> Len(nb), v |-> i - 1] >>)
    /\ UNCHANGED <<width, height, is_perfect, use_pattern, pattern, pc,
                   tree_grid, opened>>
    /\ UNCHANGED braidLocals
    /\ UNCHANGED solveVars
    /\ UNCHANGED <<runVars, file, vizVars>>

\* generate(), lines 74-85 and 94-95: one iteration at a dead end
Backtrack ==
    /\ pc = "carve"
    /\ Len(stack) > 0
    /\ Len(neighbors(stack[Len(stack)])) = 0
    /\ stack' = SubSeq(stack, 1, Len(stack) - 1)
    /\ UNCHANGED <<width, height, is_perfect, use_pattern, pattern, grid,
                   visited, pc, pushes, entered, tree_grid, opened>>
    /\ UNCHANGED braidLocals
    /\ UNCHANGED solveVars
    /\ UNCHANGED rngVars
    /\ UNCHANGED <<runVars, file, vizVars>>

\* generate(), lines 74 and 97-99: the loop ends; perfect mode returns,
\* non-perfect mode calls non_perfect()
CarveEnd ==
    /\ pc = "carve"
    /\ Len(stack) = 0
    /\ tree_grid' = grid
    /\ pc' = IF is_perfect THEN "done" ELSE "braid"
    /\ UNCHANGED <<width, height, is_perfect, use_pattern, pattern, grid,
                   stack, visited, pushes, entered, opened>>
    /\ UNCHANGED braidLocals
    /\ UNCHANGED solveVars
    /\ UNCHANGED rngVars
    /\ UNCHANGED <<runVars, file, vizVars>>

\* non_perfect(), lines 104-122: one iteration whose three draws succeed
BraidAttempt ==
    /\ pc = "braid"
    /\ attempt < break_wall(width, height)
    /\ \E rx \in 0 .. width - 2, ry \in 0 .. height - 2, dir \in 0 .. 1 :
         /\ random_x' = rx
         /\ random_y' = ry
         /\ direction' = dir
         /\ grid' = BraidGrid(grid, pattern, rx, ry, dir)
         /\ opened' = IF grid' # grid THEN opened + 1 ELSE opened
         /\ Draws(<< [n |-> width - 1, v |-> rx],
                     [n |-> height - 1, v |-> ry],
                     [n |-> 2, v |-> dir] >>)
    /\ attempt' = attempt + 1
    /\ UNCHANGED <<width, height, is_perfect, use_pattern, pattern, stack,
                   visited, pc, pushes, entered, tree_grid>>
    /\ UNCHANGED solveVars
    /\ UNCHANGED <<runVars, file, vizVars>>

\* non_perfect(), lines 105-106: random.randint(0, b) raises ValueError for
\* b < 0, and the exception leaves generate(); the draw of random_x comes
\* first and is made when the width allows it
BraidRaise ==
    /\ pc = "braid"
    /\ attempt < break_wall(width, height)
    /\ width - 2 < 0 \/ height - 2 < 0
    /\ IF width - 2 < 0 THEN Draws(<<>>)
       ELSE \E rx \in 0 .. width - 2 : Draws(<< [n |-> width - 1, v |-> rx] >>)
    /\ attempt' = attempt + 1
    /\ pc' = "error"
    /\ UNCHANGED <<width, height, is_perfect, use_pattern, pattern, grid,
                   stack, visited, pushes, entered, tree_grid, opened,
                   random_x, random_y, direction>>
    /\ UNCHANGED solveVars
    /\ UNCHANGED <<runVars, file, vizVars>>

\* non_perfect(), line 104: the loop is exhausted; generate() returns
BraidEnd ==
    /\ pc = "braid"
    /\ attempt = break_wall(width, height)
    /\ pc' = "done"
    /\ random_x' = -1
    /\ random_y' = -1
    /\ direction' = -1
    /\ UNCHANGED <<width, height, is_perfect, use_pattern, pattern, grid,
                   stack, visited, attempt, pushes, entered, tree_grid, opened>>
    /\ UNCHANGED solveVars
    /\ UNCHANGED rngVars
    /\ UNCHANGED <<runVars, file, vizVars>>

Next ==
    \/ AddPattern
    \/ GenerateBegin
    \/ Carve
    \/ Backtrack
    \/ CarveEnd
    \/ BraidAttempt
    \/ BraidRaise
    \/ BraidEnd

Spec == Init /\ [][Next]_vars

FairSpec == Spec /\ WF_vars(Next)

-----------------------------------------------------------------------------
(* solve() *)

\* Python's  self.grid[y][x]: a list index i of a list of length n is valid
\* for -n <= i < n, a negative one counting from the end; any other index
\* raises IndexError.
IndexOk(i, n) == -n <= i /\ i < n

ListIndex(i, n) == IF i < 0 THEN i + n ELSE i

\* A solver that never looks at the walls.
RECURSIVE Expand_NoWalls(_, _, _, _)
Expand_NoWalls(cur, path, k, b) ==
    IF k > Len(directions) THEN b
    ELSE
        LET d  == directions[k]
            nx == cur[1] + d.dx
            ny == cur[2] + d.dy
        IN  IF ~(InBounds(nx, ny, width, height) /\ <<nx, ny>> \notin b.visited)
            THEN Expand_NoWalls(cur, path, k + 1, b)
            ELSE Expand_NoWalls(cur, path, k + 1,
                        [b EXCEPT !.visited = @ \cup {<<nx, ny>>},
                                  !.queue = Append(@, [pos |-> <<nx, ny>>,
                                                       path |-> Append(path, d.key)])])

\* solve(), lines 138-146: the for loop over self.directions for the cell
\* cur dequeued with  path, from direction number k on.  b holds the queue,
\* the visited set, whether the read of the grid raised, and (a history) the
\* cells whose masks self.grid[current_y][current_x] has read: a negative
\* index within the length counts from the end of the list.
RECURSIVE Expand(_, _, _, _)
Expand(cur, path, k, b) ==
    IF k > Len(directions) \/ b.raised THEN b
    ELSE
        LET d  == directions[k]
            nx == cur[1] + d.dx
            ny == cur[2] + d.dy
        IN  IF ~(InBounds(nx, ny, width, height) /\ <<nx, ny>> \notin b.visited)
            THEN Expand(cur, path, k + 1, b)
            ELSE IF ~(IndexOk(cur[2], height) /\ IndexOk(cur[1], width))
            THEN [b EXCEPT !.raised = TRUE]
            ELSE IF HasBit(grid[<<ListIndex(cur[1], width),
                                  ListIndex(cur[2], height)>>], d.wall_bit)
            THEN Expand(cur, path, k + 1,
                        [b EXCEPT !.reads = @ \cup {<<ListIndex(cur[1], width),
                                                      ListIndex(cur[2], height)>>}])
            ELSE Expand(cur, path, k + 1,
                        [b EXCEPT !.reads = @ \cup {<<ListIndex(cur[1], width),
                                                      ListIndex(cur[2], height)>>},
                                  !.visited = @ \cup {<<nx, ny>>},
                                  !.queue = Append(@, [pos |-> <<nx, ny>>,
                                                       path |-> Append(path, d.key)])])

\* A solver that takes the newest entry of the queue (queue.pop()), which
\* makes the search depth-first.
RECURSIVE Search_Lifo(_, _)
Search_Lifo(b, e) ==
    IF b.raised THEN [raised |-> TRUE, path |-> <<>>, reads |-> b.reads]
    ELSE IF Len(b.queue) = 0
    THEN [raised |-> FALSE, path |-> <<>>, reads |-> b.reads]
    ELSE
        LET last == b.queue[Len(b.queue)]
        IN  IF last.pos[1] = e[1] /\ last.pos[2] = e[2]
            THEN [raised |-> FALSE, path |-> last.path, reads |-> b.reads]
            ELSE Search_Lifo(Expand(last.pos, last.path, 1,
                     [b EXCEPT !.queue = SubSeq(@, 1, Len(@) - 1)]), e)

\* solve(), lines 131-147: the while loop.
RECURSIVE Search(_, _)
Search(b, e) ==
    IF b.raised THEN [raised |-> TRUE, path |-> <<>>, reads |-> b.reads]
    ELSE IF Len(b.queue) = 0
    THEN [raised |-> FALSE, path |-> <<>>, reads |-> b.reads]
    ELSE
        LET head == Head(b.queue)
        IN  IF head.pos[1] = e[1] /\ head.pos[2] = e[2]
            THEN [raised |-> FALSE, path |-> head.path, reads |-> b.reads]
            ELSE Search(Expand(head.pos, head.path, 1,
                               [b EXCEPT !.queue = Tail(@)]), e)

\* MazeGenerator.solve
solve(s, e) ==
    Search([queue |-> << [pos |-> s, path |-> <<>>] >>,
            visited |-> {s},
            raised |-> FALSE,
            reads |-> {}], e)

\* The coordinates solve() is called with.
Around(w, h) == (-1 .. w) \X (-1 .. h)

\* a_maze_ing.py: maze.solve(entry, exit_pos) on the generated maze
SolveIn(S) ==
    /\ pc = "done"
    /\ \E s \in S, e \in S :
         /\ run = 2 => (s = first.start /\ e = first.end)
         /\ start' = s
         /\ end' = e
         /\ solution' = solve(s, e)
    /\ pc' = "solved"
    /\ UNCHANGED <<width, height, is_perfect, use_pattern, pattern, grid,
                   stack, visited, pushes, entered, tree_grid, opened>>
    /\ UNCHANGED braidLocals
    /\ UNCHANGED rngVars
    /\ UNCHANGED <<runVars, file, vizVars>>

SolveScenarios ==
    { [w |-> d[1], h |-> d[2], pat |-> p, perfect |-> m] :
        d \in (1 .. MaxSolveW) \X (1 .. MaxSolveH), p \in BOOLEAN, m \in BOOLEAN }
    \cup
    { [w |-> d[1], h |-> d[2], pat |-> TRUE, perfect |-> m] :
        d \in SolveExtraDims, m \in BOOLEAN }

InitSolve ==
    /\ \E s \in SolveScenarios : InitOf(s)
    /\ seed = <<>>
    /\ rng = Unseeded
    /\ tape = {}
    /\ choices = <<>>
    /\ run = 1
    /\ first = <<>>
    /\ InitViz(<<>>)

Solve == SolveIn(Around(width, height))

NextSolve ==
    \/ Next
    \/ Solve

SolveSpec == InitSolve /\ [][NextSolve]_vars

-----------------------------------------------------------------------------
\* save_to_file(): the file is the sequence of the characters written.

Digits_Lower == << "0", "1", "2", "3", "4", "5", "6", "7", "8", "9",
                   "a", "b", "c", "d", "e", "f" >>

\* the digits of format(n, 'X') and of str(n)
Digits == << "0", "1", "2", "3", "4", "5", "6", "7", "8", "9",
             "A", "B", "C", "D", "E", "F" >>

RECURSIVE ToBase(_, _)
ToBase(n, base) ==
    IF n < base THEN << Digits[n + 1] >>
    ELSE ToBase(n \div base, base) \o << Digits[(n % base) + 1] >>

\* format(n, 'X'), line 162
FormatHex(n) ==
    IF n < 0 THEN << "-" >> \o ToBase(0 - n, 16) ELSE ToBase(n, 16)

\* str(n), lines 166 and 169
str(n) ==
    IF n < 0 THEN << "-" >> \o ToBase(0 - n, 10) ELSE ToBase(n, 10)

\* lines 160-163: the cells x = 0 .. upto of row y, then of the rows before
RECURSIVE WriteCells(_, _, _)
WriteCells(g, y, upto) ==
    IF upto < 0 THEN <<>>
    ELSE WriteCells(g, y, upto - 1) \o FormatHex(g[<<upto, y>>])

RECURSIVE WriteRows(_, _, _)
WriteRows(g, w, upto) ==
    IF upto < 0 THEN <<>>
    ELSE WriteRows(g, w, upto - 1) \o WriteCells(g, upto, w - 1) \o << "\n" >>

\* lines 159-172
save_to_file(g, w, h, entry, exit, sol) ==
    WriteRows(g, w, h - 1) \o << "\n" >>
    \o str(entry[1]) \o << "," >> \o str(entry[2]) \o << "\n" >>
    \o str(exit[1]) \o << "," >> \o str(exit[2]) \o << "\n" >>
    \o sol \o << "\n" >>

\* a_maze_ing.py, line 68: the solution that solve() returned is saved
Save ==
    /\ pc = "solved"
    /\ ~solution.raised
    /\ file' = save_to_file(grid, width, height, start, end, solution.path)
    /\ pc' = "saved"
    /\ UNCHANGED <<width, height, is_perfect, use_pattern, pattern, grid,
                   stack, visited, pushes, entered, tree_grid, opened>>
    /\ UNCHANGED braidLocals
    /\ UNCHANGED solveVars
    /\ UNCHANGED rngVars
    /\ UNCHANGED <<runVars, vizVars>>

-----------------------------------------------------------------------------
\* Two runs, one after the other, with the same arguments: the second
\* constructs its MazeGenerator when the first has saved its file.

MaxSeed == 2
MaxSeedW == 3
MaxSeedH == 2
SeedExtraDims == { <<7, 5>>, <<5, 5>>, <<2, 10>>, <<1, 11>>, <<1, 20>> }

SeedScenarios ==
    { [w |-> d[1], h |-> d[2], pat |-> TRUE, perfect |-> m] :
        d \in ((1 .. MaxSeedW) \X (1 .. MaxSeedH)) \cup SeedExtraDims,
        m \in BOOLEAN }

InitSeed ==
    /\ \E s \in SeedScenarios : InitOf(s)
    /\ seed \in { <<sd>> : sd \in 1 .. MaxSeed }
    /\ rng = Seeded(Unseeded, seed)
    /\ tape = {}
    /\ choices = <<>>
    /\ run = 1
    /\ first = <<>>
    /\ InitViz(<<>>)

\* entry and exit of the run: corners of the grid
Corners(w, h) == { origin, <<w - 1, h - 1>> }

SolveCorners == SolveIn(Corners(width, height))

\* MazeGenerator.__init__ again, with the arguments of the first run
SecondRun ==
    /\ run = 1
    /\ pc = "saved"
    /\ run' = 2
    /\ first' = [grid |-> grid, solution |-> solution, file |-> file,
                 choices |-> choices, start |-> start, end |-> end]
    /\ rng' = Seeded(rng, seed)
    /\ choices' = <<>>
    /\ pattern' = {}
    /\ grid' = [c \in Cells(width, height) |-> FullMask]
    /\ stack' = <<>>
    /\ visited' = {}
    /\ pc' = "new"
    /\ attempt' = 0
    /\ random_x' = -1
    /\ random_y' = -1
    /\ direction' = -1
    /\ pushes' = [c \in Cells(width, height) |-> 0]
    /\ entered' = {}
    /\ tree_grid' = [c \in Cells(width, height) |-> FullMask]
    /\ opened' = 0
    /\ start' = origin
    /\ end' = origin
    /\ solution' = NoOutcome
    /\ file' = <<>>
    /\ UNCHANGED <<width, height, is_perfect, use_pattern, seed, tape>>
    /\ UNCHANGED vizVars

NextSeed ==
    \/ Next
    \/ SolveCorners
    \/ Save
    \/ SecondRun

SeedSpec == InitSeed /\ [][NextSeed]_vars

-----------------------------------------------------------------------------
(* The passage graph of a grid. *)

\* The pairs of grid-adjacent cells: a and the cell east or south of it.
GridEdges(w, h) ==
    { {a, <<a[1] + 1, a[2]>>} : a \in (0 .. w - 2) \X (0 .. h - 1) }
    \cup
    { {a, <<a[1], a[2] + 1>>} : a \in (0 .. w - 1) \X (0 .. h - 2) }

\* The bit of cell a that faces the adjacent cell b.
BitToward(a, b) ==
    IF b[2] < a[2] THEN 1
    ELSE IF b[1] > a[1] THEN 2
    ELSE IF b[2] > a[2] THEN 4
    ELSE 8

\* A carved edge: a pair of adjacent cells with the wall cleared on a side.
IsCarved(g, a, b) ==
    \/ ~HasBit(g[a], BitToward(a, b))
    \/ ~HasBit(g[b], BitToward(b, a))

CarvedEdges(g, w, h) ==
    { e \in GridEdges(w, h) : \E a \in e, b \in e : a # b /\ IsCarved(g, a, b) }

\* The cells connected to the cells of  from  by the edges E.
RECURSIVE Closure(_, _)
Closure(from, E) ==
    LET more == from \cup UNION { e \in E : e \cap from # {} }
    IN  IF more = from THEN from ELSE Closure(more, E)

\* A graph is a forest iff stripping its cells of degree at most one, again
\* and again, leaves no cell.
RECURSIVE IsForest(_, _)
IsForest(V, E) ==
    LET leaves == { v \in V : Cardinality({ e \in E : v \in e }) <= 1 }
    IN  IF V = {} THEN TRUE
        ELSE IF leaves = {} THEN FALSE
        ELSE IsForest(V \ leaves, { e \in E : e \cap leaves = {} })

\* The non-pattern cells that grid steps from the origin reach without
\* stepping on a pattern cell.
FreeReach(w, h, pat) ==
    LET free == (Cells(w, h) \ pat) \cup {origin}
    IN  Closure({origin}, { e \in GridEdges(w, h) : e \subseteq free }) \ pat

\* The carving loop has just ended: line 74 found the stack empty.
CarveTerminated == pc = "carve" /\ Len(stack) = 0

-----------------------------------------------------------------------------
(* C1  Obstacle isolation. *)

\* C1: in every state of add_pattern() followed by generate(), every pattern
\* cell still has wall mask 15 and was never pushed by the carver as a newly
\* entered cell (a cell with mask 15 is the endpoint of no carved edge).
C1_ObstacleIsolation ==
    \A c \in pattern : grid[c] = FullMask /\ c \notin entered

-----------------------------------------------------------------------------
(* C2  Symmetry. *)

\* C2: after every carve step and every braid attempt, for every pair of
\* grid-adjacent cells a and b, the bit of a facing b is clear iff the bit of
\* b facing a is clear.
C2_Symmetry ==
    \A e \in GridEdges(width, height) :
        \A a \in e, b \in e :
            a # b => (HasBit(grid[a], BitToward(a, b))
                        <=> HasBit(grid[b], BitToward(b, a)))

\* A braid attempt has opened a wall of a carved maze.
C2_Witness ==
    /\ pc = "braid"
    /\ opened > 0
    /\ Cardinality(CarvedEdges(tree_grid, width, height)) > 0

-----------------------------------------------------------------------------
(* C3  Tree invariant, empty pattern. *)

\* C3: in perfect mode without add_pattern(), after generate() the carved
\* edges number W*H - 1 and the passage graph is connected over all W*H cells
\* and acyclic.
C3_TreeEmptyPattern ==
    (pc = "done" /\ is_perfect /\ ~use_pattern) =>
        LET E == CarvedEdges(grid, width, height)
        IN  /\ Cardinality(E) = width * height - 1
            /\ Closure({origin}, E) = Cells(width, height)
            /\ IsForest(Cells(width, height), E)

\* A perfect maze without pattern on the largest grid of the bounds.
C3_Witness ==
    /\ pc = "done"
    /\ is_perfect
    /\ ~use_pattern
    /\ width = MaxW
    /\ height = MaxH

-----------------------------------------------------------------------------
(* C4  Tree property with obstacles. *)

\* The carved edges between two non-pattern cells.
FreeCarvedEdges ==
    { e \in CarvedEdges(grid, width, height) : e \cap pattern = {} }

\* C4 as stated: in perfect mode with the pattern of add_pattern(), after
\* generate() the carved edges between non-pattern cells number (non-pattern
\* cells reachable from the origin through non-pattern cells) - 1, and the
\* carved subgraph is acyclic and connects exactly those cells.
C4_TreeWithObstacles_Stated ==
    (pc = "done" /\ is_perfect /\ use_pattern) =>
        LET R == FreeReach(width, height, pattern)
        IN  /\ Cardinality(FreeCarvedEdges) = Cardinality(R) - 1
            /\ IsForest(Cells(width, height) \ pattern, FreeCarvedEdges)
            /\ UNION FreeCarvedEdges \subseteq R
            /\ \A c \in R : Closure({c}, FreeCarvedEdges) = R

\* C4 as amended: in perfect mode with the pattern of add_pattern(), after
\* generate() the carved edges number (cells of T) - 1, where T is the origin
\* together with the non-pattern cells reachable from the origin through
\* non-pattern cells, and the carved graph is acyclic and connects exactly
\* the cells of T.
C4_TreeWithObstacles ==
    (pc = "done" /\ is_perfect /\ use_pattern) =>
        LET T == {origin} \cup FreeReach(width, height, pattern)
            E == CarvedEdges(grid, width, height)
        IN  /\ Cardinality(E) = Cardinality(T) - 1
            /\ IsForest(Cells(width, height), E)
            /\ Closure({origin}, E) = T

\* A perfect maze whose pattern leaves a branching region around a free
\* origin.
C4_Witness ==
    /\ pc = "done"
    /\ is_perfect
    /\ use_pattern
    /\ origin \notin pattern
    /\ pattern # {}
    /\ Cardinality(FreeReach(width, height, pattern)) > 10

-----------------------------------------------------------------------------
(* C7  Braid bound on walls. *)

\* What one step of non_perfect() may do to the grid: nothing, or clear the
\* wall between two adjacent non-pattern cells that was closed on both sides.
BraidStepOpensProperly ==
    \/ grid' = grid
    \/ \E e \in GridEdges(width, height) :
         \E a \in e, b \in e :
            /\ a # b
            /\ a \notin pattern
            /\ b \notin pattern
            /\ HasBit(grid[a], BitToward(a, b))
            /\ HasBit(grid[b], BitToward(b, a))
            /\ grid' = [grid EXCEPT ![a] = @ - BitToward(a, b),
                                    ![b] = @ - BitToward(b, a)]

\* An attempt that drew a pattern cell or an already open wall.
BraidAttemptHits ==
    /\ pc' = "braid"
    /\ attempt' = attempt + 1
    /\ \/ <<random_x', random_y'>> \in pattern
       \/ BraidOther(random_x', random_y', direction') \in pattern
       \/ ~HasBit(grid[<<random_x', random_y'>>], BraidBit(direction'))

\* C7: non_perfect() makes exactly floor(W*H/20) attempts and opens at most
\* that many walls; every wall it opens lies between two adjacent non-pattern
\* cells and was closed on both sides before the attempt; an attempt that
\* hits a pattern cell or an open wall changes nothing.
C7_BraidBoundWalls ==
    [][ pc = "braid" =>
          /\ BraidStepOpensProperly
          /\ BraidAttemptHits => grid' = grid
          /\ pc' # "braid" =>
                /\ attempt' = (width * height) \div 20
                /\ opened' <= (width * height) \div 20 ]_vars

-----------------------------------------------------------------------------
(* C8  Braid bound on cells. *)

\* The cells whose mask differs from the carved perfect maze.
ChangedCells == { c \in Cells(width, height) : grid[c] # tree_grid[c] }

\* C8 as stated: while and after the braider runs on a carved maze, at most
\* floor(W*H/20) cells have a mask that differs from the carved maze.
C8_BraidBoundCells_Stated ==
    pc \in {"braid", "done", "error"} =>
        Cardinality(ChangedCells) <= (width * height) \div 20

\* C8 as amended: while and after the braider runs on a carved maze, at most
\* 2 * floor(W*H/20) cells have a mask that differs from the carved maze
\* (every opened wall changes the two cells it separates).
C8_BraidBoundCells ==
    pc \in {"braid", "done", "error"} =>
        Cardinality(ChangedCells) <= 2 * ((width * height) \div 20)

\* The braider has opened two walls that share no cell.
C8_Witness ==
    /\ pc = "done"
    /\ ~is_perfect
    /\ opened = 2
    /\ Cardinality(ChangedCells) = 4

-----------------------------------------------------------------------------
(* C9  The braider never raises. *)

\* C9: generate() in non-perfect mode completes without an error, for every
\* width and height, grids of one column or one row included.
C9_BraiderNeverRaises == pc # "error"

-----------------------------------------------------------------------------
(* C10  Carver termination. *)

\* C10: the carving loop of generate() terminates with an empty stack; at
\* that point every non-pattern cell reachable from the origin through
\* non-pattern cells is visited and was pushed exactly once, and every cell
\* that was never pushed still has mask 15.
C10_CarverTermination ==
    /\ (pc = "carve") ~> CarveTerminated
    /\ [](CarveTerminated =>
            /\ \A c \in FreeReach(width, height, pattern) :
                  c \in visited /\ pushes[c] = 1
            /\ \A c \in Cells(width, height) :
                  pushes[c] = 0 => grid[c] = FullMask)

\* The loop has ended on a grid whose origin is free and whose pattern cuts
\* free cells off from it.
C10_Witness ==
    /\ CarveTerminated
    /\ origin \notin pattern
    /\ Cardinality(FreeReach(width, height, pattern)) > 1
    /\ \E c \in Cells(width, height) \ pattern : pushes[c] = 0

-----------------------------------------------------------------------------
(* C5  Solver correctness. *)

\* The cells one step from cell a through a side whose bit is clear in a.
OpenSteps(g, a) ==
    { <<a[1] + directions[k].dx, a[2] + directions[k].dy>> :
        k \in { j \in 1 .. Len(directions) :
                  /\ InBounds(a[1] + directions[j].dx, a[2] + directions[j].dy,
                              width, height)
                  /\ ~HasBit(g[a], directions[j].wall_bit) } }

\* The cells within n steps through open passages of a start cell are the
\* cells of  seen, the newest of them those of  fresh.  Layers(g, seen,
\* fresh, e, n) is <<reached, steps>>: whether such a walk reaches e and, if
\* so, the least number of steps of one.
RECURSIVE Layers(_, _, _, _, _)
Layers(g, seen, fresh, e, n) ==
    IF e \in fresh THEN <<TRUE, n>>
    ELSE IF fresh = {} THEN <<FALSE, n>>
    ELSE LET next == UNION { OpenSteps(g, a) : a \in fresh } \ seen
         IN  Layers(g, seen \cup next, next, e, n + 1)

\* A start outside the grid has no passages.
Walks(g, s, e) ==
    IF s \in Cells(width, height) THEN Layers(g, {s}, {s}, e, 0)
    ELSE <<s = e, 0>>

Reachable(g, s, e) == Walks(g, s, e)[1]

Distance(g, s, e) == Walks(g, s, e)[2]

\* The direction record of a letter.
DirectionOf(letter) ==
    CHOOSE d \in { directions[k] : k \in 1 .. Len(directions) } : d.key = letter

\* Where the walk  path  from cell c ends, or <<-9, -9>> when a step leaves
\* the grid or crosses a side whose bit is set in the cell being left.
RECURSIVE WalkEnd(_, _)
WalkEnd(c, path) ==
    IF Len(path) = 0 THEN c
    ELSE
        LET d == DirectionOf(Head(path))
            n == <<c[1] + d.dx, c[2] + d.dy>>
        IN  IF /\ c \in Cells(width, height)
               /\ n \in Cells(width, height)
               /\ ~HasBit(grid[c], d.wall_bit)
            THEN WalkEnd(n, Tail(path))
            ELSE <<-9, -9>>

\* C5: for in-bounds start and end with end reachable from start through
\* open passages, solve() returns letters of N, E, S, W that, followed from
\* start, stay in the grid, cross only sides whose bit is clear in the cell
\* being left, end at end, and are as few as any such walk has steps.
C5_SolverCorrectness ==
    ( /\ pc = "solved"
      /\ start \in Cells(width, height)
      /\ end \in Cells(width, height)
      /\ Reachable(grid, start, end) ) =>
        /\ ~solution.raised
        /\ \A k \in 1 .. Len(solution.path) : solution.path[k] \in {"N", "E", "S", "W"}
        /\ WalkEnd(start, solution.path) = end
        /\ Len(solution.path) = Distance(grid, start, end)

\* solve() has answered on a braided maze where a wall the braider opened
\* makes the way shorter than it is in the carved tree.
C5_Witness ==
    /\ pc = "solved"
    /\ ~is_perfect
    /\ start \in Cells(width, height)
    /\ end \in Cells(width, height)
    /\ Reachable(tree_grid, start, end)
    /\ Len(solution.path) >= 2
    /\ Len(solution.path) < Distance(tree_grid, start, end)

-----------------------------------------------------------------------------
(* C6  Empty solution. *)

\* A start one step beyond the east or the south edge of the grid.
BeyondEastOrSouth(s) ==
    \/ s[1] = width /\ 0 <= s[2] /\ s[2] < height
    \/ s[2] = height /\ 0 <= s[1] /\ s[1] < width

\* C6 as stated: solve() returns for every start and end, and returns the
\* empty string exactly when start = end or end cannot be reached from start
\* through open passages.
C6_EmptySolution_Stated ==
    pc = "solved" =>
        /\ ~solution.raised
        /\ Len(solution.path) = 0 <=>
              (start = end \/ ~Reachable(grid, start, end))

\* C6 as amended: solve() returns for every start and end except a start,
\* different from end, one step beyond the east or the south edge of the
\* grid, for which it raises IndexError; whenever it returns, the result is
\* the empty string exactly when start = end or end cannot be reached from
\* start through open passages.
C6_EmptySolution ==
    pc = "solved" =>
        /\ solution.raised <=> (start # end /\ BeyondEastOrSouth(start))
        /\ ~solution.raised =>
              (Len(solution.path) = 0 <=>
                  (start = end \/ ~Reachable(grid, start, end)))

\* solve() has returned the empty string for an end that is a walled-in
\* pattern cell, on a maze where other cells are reachable from start.
C6_Witness ==
    /\ pc = "solved"
    /\ ~solution.raised
    /\ start \in Cells(width, height)
    /\ start # end
    /\ end \in pattern
    /\ \E c \in Cells(width, height) : Distance(grid, start, c) >= 2 /\ Reachable(grid, start, c)
    /\ Len(solution.path) = 0

-----------------------------------------------------------------------------
\* Other MazeGenerator instances of the same process, at work between the
\* construction of the second run's instance and its generate().

MaxOtherDraws == 2
MaxOtherChoice == 2
SharedDims == { <<2, 2>>, <<3, 2>> }

\* perfect mode: generate() is the carver alone
SharedScenarios ==
    { [w |-> d[1], h |-> d[2], pat |-> p, perfect |-> TRUE] :
        d \in SharedDims, p \in BOOLEAN }

InitShared ==
    /\ \E s \in SharedScenarios : InitOf(s)
    /\ seed \in { <<sd>> : sd \in 1 .. MaxSeed }
    /\ rng = Seeded(Unseeded, seed)
    /\ tape = {}
    /\ choices = <<>>
    /\ run = 1
    /\ first = <<>>
    /\ InitViz(<<>>)

BeforeGenerate == run = 2 /\ pc \in {"new", "ready"}

mazeVars == <<width, height, is_perfect, use_pattern, pattern, grid, stack,
              visited, pc, pushes, entered, tree_grid, opened>>

\* MazeGenerator.__init__ of another instance, lines 24-25: it seeds the same
\* module-level generator (or leaves it alone, when its seed is None); one
\* such construction, made before any other draw
OtherConstruct ==
    /\ BeforeGenerate
    /\ rng = Seeded(rng, seed)
    /\ \E sd \in {<<>>} \cup { <<k>> : k \in 1 .. MaxSeed } :
         rng' = Seeded(rng, sd)
    /\ UNCHANGED <<mazeVars, braidLocals, solveVars, seed, tape, choices,
                   runVars, file, vizVars>>

\* generate() of another instance, line 88: its random.choice is a draw from
\* the same module-level generator
OtherDraw ==
    /\ BeforeGenerate
    /\ Len(rng.hist) < MaxOtherDraws
    /\ \E k \in 1 .. MaxOtherChoice, v \in 0 .. MaxOtherChoice - 1 :
         /\ v < k
         /\ Consume(<< [n |-> k, v |-> v] >>)
    /\ UNCHANGED <<mazeVars, braidLocals, solveVars, seed, choices,
                   runVars, file, vizVars>>

NextShared ==
    \/ AddPattern
    \/ GenerateBegin
    \/ Carve
    \/ Backtrack
    \/ CarveEnd
    \/ SolveCorners
    \/ Save
    \/ SecondRun
    \/ OtherConstruct
    \/ OtherDraw

SharedSpec == InitShared /\ [][NextShared]_vars

-----------------------------------------------------------------------------
\* C12: the grid that generate() produces on an instance constructed with
\* seed s is the same whatever other instances were constructed, or drew,
\* between its construction and its generate(): the second run, which has
\* them, ends with the grid of the first, which has none.
C12_OwnedRandomSource ==
    (run = 2 /\ pc \in {"done", "solved", "saved"}) => grid = first.grid

-----------------------------------------------------------------------------
\* C11: two runs with the same seed, width, height and mode, and the same
\* entry and exit, make the same draws in the same order (the second run's
\* draws are at every moment a prefix of the first's) and end with the same
\* grid, the same solution and the same characters in the file.

IsPrefix(a, b) ==
    /\ Len(a) <= Len(b)
    /\ \A i \in 1 .. Len(a) : a[i] = b[i]

C11_Determinism ==
    run = 2 =>
        /\ IsPrefix(choices, first.choices)
        /\ pc \in {"done", "solved", "saved"} =>
              (grid = first.grid /\ choices = first.choices)
        /\ pc \in {"solved", "saved"} => solution = first.solution
        /\ pc = "saved" => file = first.file

\* a second run that braided, after two or more real choices, and saved a
\* non-empty solution
C11_Witness ==
    /\ run = 2
    /\ pc = "saved"
    /\ ~is_perfect
    /\ opened > 0
    /\ Cardinality({ i \in 1 .. Len(choices) : choices[i][1] >= 2 }) >= 3
    /\ solution.path # <<>>

-----------------------------------------------------------------------------
\* Reading a file back: its lines, and the numbers its characters stand for.

HexValue ==
    ("0" :> 0) @@ ("1" :> 1) @@ ("2" :> 2) @@ ("3" :> 3) @@ ("4" :> 4) @@
    ("5" :> 5) @@ ("6" :> 6) @@ ("7" :> 7) @@ ("8" :> 8) @@ ("9" :> 9) @@
    ("A" :> 10) @@ ("B" :> 11) @@ ("C" :> 12) @@ ("D" :> 13) @@
    ("E" :> 14) @@ ("F" :> 15)

Terminated(f) == f # <<>> /\ f[Len(f)] = "\n"

\* the lines of f, each without its newline
RECURSIVE LinesOf(_)
LinesOf(f) ==
    IF f = <<>> THEN <<>>
    ELSE LET stops == { i \in 1 .. Len(f) : f[i] = "\n" }
             k == IF stops = {} THEN Len(f) + 1
                  ELSE CHOOSE i \in stops : \A j \in stops : i <= j
         IN  << SubSeq(f, 1, k - 1) >> \o LinesOf(SubSeq(f, k + 1, Len(f)))

RECURSIVE DecValue(_)
DecValue(t) ==
    IF t = <<>> THEN 0
    ELSE DecValue(SubSeq(t, 1, Len(t) - 1)) * 10 + HexValue[t[Len(t)]]

IsDecimal(t, n) ==
    /\ t # <<>>
    /\ \A i \in 1 .. Len(t) : t[i] \in DOMAIN HexValue /\ HexValue[t[i]] < 10
    /\ Len(t) > 1 => t[1] # "0"
    /\ DecValue(t) = n

IsCoordinate(t, c) ==
    \E k \in 1 .. Len(t) :
        /\ t[k] = ","
        /\ IsDecimal(SubSeq(t, 1, k - 1), c[1])
        /\ IsDecimal(SubSeq(t, k + 1, Len(t)), c[2])

\* C13: the saved file is H lines of W characters, row 0 first and cell 0
\* first, each character the one uppercase hexadecimal digit of the cell's
\* mask; then an empty line, the line entryX,entryY, the line exitX,exitY
\* and the solution line; every line ends with a newline.
C13_SerializedFormat ==
    pc = "saved" =>
        LET L == LinesOf(file) IN
        /\ Terminated(file)
        /\ Len(L) = height + 4
        /\ \A y \in 0 .. height - 1 :
              /\ Len(L[y + 1]) = width
              /\ \A x \in 0 .. width - 1 :
                    /\ L[y + 1][x + 1] \in DOMAIN HexValue
                    /\ HexValue[L[y + 1][x + 1]] = grid[<<x, y>>]
        /\ L[height + 1] = <<>>
        /\ IsCoordinate(L[height + 2], start)
        /\ IsCoordinate(L[height + 3], end)
        /\ L[height + 4] = solution.path

\* a saved grid of several rows and columns with masks on both sides of 9
\* and a solution
C13_Witness ==
    /\ pc = "saved"
    /\ width >= 2
    /\ height >= 2
    /\ \E c \in Cells(width, height) : grid[c] >= 10
    /\ \E c \in Cells(width, height) : grid[c] < 10
    /\ \E c, d \in Cells(width, height) : grid[c] # grid[d] /\ c[2] # d[2]
    /\ solution.path # <<>>

-----------------------------------------------------------------------------
\* C14: for a start outside the grid, other than end, solve() fails with an
\* index error at its first read of the start cell's mask: it raises, it has
\* read no cell of the grid in place of the start cell, and it returns no
\* path.
C14_OutOfRangeFailsFast ==
    ( /\ pc = "solved"
      /\ start \notin Cells(width, height)
      /\ start # end )
    => ( /\ solution.raised
         /\ solution.reads = {}
         /\ solution.path = <<>> )

-----------------------------------------------------------------------------
\* C15: after add_pattern() on a fresh generator the pattern is exactly the
\* cells (sx + i, sy + j) inside the grid for which the template has a
\* marker at column i of row j, where sx is the floor of (W - 7) / 2 and sy
\* the floor of (H - 5) / 2: the integers with 2 sx <= W - 7 < 2 sx + 2 and
\* 2 sy <= H - 5 < 2 sy + 2, also when W - 7 or H - 5 is negative.
IsFloorOfHalf(q, n) == 2 * q <= n /\ n < 2 * q + 2

Marked(c, w, h) ==
    \E sx \in (0 - 7) .. w, sy \in (0 - 5) .. h :
        /\ IsFloorOfHalf(sx, w - 7)
        /\ IsFloorOfHalf(sy, h - 5)
        /\ c[1] - sx \in 0 .. 6
        /\ c[2] - sy \in 0 .. 4
        /\ template[c[2] - sy + 1][c[1] - sx + 1] = 1

C15_PatternOverlay ==
    (use_pattern /\ pc # "new") =>
        /\ pattern \subseteq Cells(width, height)
        /\ \A c \in Cells(width, height) :
              c \in pattern <=> Marked(c, width, height)

\* a grid narrower than the template, at an odd distance from its width, on
\* which part of the template falls
C15_Witness ==
    /\ use_pattern
    /\ pc = "ready"
    /\ width < 7
    /\ (7 - width) % 2 = 1
    /\ pattern # {}
    /\ pattern # Cells(width, height)

-----------------------------------------------------------------------------
\* C16: among the shortest walks from start to end, solve() returns the one
\* that comes first when walks are compared letter by letter under
\* N < E < S < W: it is a shortest walk, and at none of its steps does a
\* letter of lower rank also begin a shortest way on to end.
LetterOrder == << "N", "E", "S", "W" >>

Rank(letter) == CHOOSE k \in 1 .. Len(LetterOrder) : LetterOrder[k] = letter

\* From cell c the step  letter  is open and leaves exactly n steps to e.
StepsOn(c, letter, e, n) ==
    LET d == DirectionOf(letter)
        t == <<c[1] + d.dx, c[2] + d.dy>>
    IN  /\ t \in Cells(width, height)
        /\ ~HasBit(grid[c], d.wall_bit)
        /\ Reachable(grid, t, e)
        /\ Distance(grid, t, e) = n

C16_TieBreaking ==
    ( /\ pc = "solved"
      /\ start \in Cells(width, height)
      /\ end \in Cells(width, height)
      /\ Reachable(grid, start, end) ) =>
        LET p == solution.path IN
        /\ WalkEnd(start, p) = end
        /\ Len(p) = Distance(grid, start, end)
        /\ \A k \in 1 .. Len(p) :
              \A l \in { LetterOrder[i] : i \in 1 .. Len(LetterOrder) } :
                  Rank(l) < Rank(p[k]) =>
                      ~StepsOn(WalkEnd(start, SubSeq(p, 1, k - 1)), l, end,
                               Len(p) - k)

\* solve() has answered on a braided maze where another shortest walk
\* leaves the returned one at some step
C16_Witness ==
    /\ pc = "solved"
    /\ ~is_perfect
    /\ start \in Cells(width, height)
    /\ end \in Cells(width, height)
    /\ ~solution.raised
    /\ WalkEnd(start, solution.path) = end
    /\ \E k \in 1 .. Len(solution.path) :
          \E l \in { LetterOrder[i] : i \in 1 .. Len(LetterOrder) } :
              /\ Rank(l) > Rank(solution.path[k])
              /\ StepsOn(WalkEnd(start, SubSeq(solution.path, 1, k - 1)), l,
                         end, Len(solution.path) - k)

-----------------------------------------------------------------------------
\* C17: every mask is always within 0..15; a step that changes a cell's mask
\* subtracts from it one wall bit that is set in it; and a wall bit that is
\* clear in a cell is clear in it ever after.
WallBits == { directions[k].wall_bit : k \in 1 .. Len(directions) }

MasksInRange == \A c \in Cells(width, height) : grid[c] \in 0 .. 15

SubtractsSetBits ==
    \A c \in Cells(width, height) :
        /\ grid'[c] # grid[c] =>
              \E b \in WallBits : HasBit(grid[c], b) /\ grid'[c] = grid[c] - b
        /\ \A b \in WallBits : ~HasBit(grid[c], b) => ~HasBit(grid'[c], b)

C17_MaskMonotone == []MasksInRange /\ [][SubtractsSetBits]_vars

\* the braider has opened a wall of a carved maze
C17_Witness ==
    /\ pc = "done"
    /\ ~is_perfect
    /\ opened > 0
    /\ \E c \in Cells(width, height) :
          /\ tree_grid[c] # FullMask
          /\ grid[c] # tree_grid[c]

-----------------------------------------------------------------------------
\* MazeVisualizer: the key hook and the loop hook that display() registers.
\* A handler runs to its return before the next one starts.

MaxPathLen == 4
MaxTicks == MaxPathLen + 2

\* __init__, line 77: self.palettes
palettes == << "PALETTE_1", "PALETTE_2", "PALETTE_3" >>

\* the solutions a regeneration may install: one of every length
Paths == { [i \in 1 .. n |-> "E"] : n \in 0 .. MaxPathLen }

engineVars == <<mazeVars, braidLocals, solveVars, rngVars, runVars, file>>

\* display(): the loop runs until key '4' or ESC has called mlx_loop_exit
LoopRuns == last_key \notin {52, 65307}

InitVisualizer ==
    /\ InitOf([w |-> 1, h |-> 1, pat |-> FALSE, perfect |-> TRUE])
    /\ seed = <<>>
    /\ rng = Unseeded
    /\ tape = {}
    /\ choices = <<>>
    /\ run = 1
    /\ first = <<>>
    /\ \E path \in Paths : InitViz(path)

\* _key_handler(49), lines 473-485: the callback is generate_new_maze, whose
\* set_maze_data() installs the new solution before the reset
Key1 ==
    /\ LoopRuns
    /\ \E path \in Paths : solution_path' = path
    /\ show_solution' = FALSE
    /\ is_animating' = FALSE
    /\ animation_progress' = 0
    /\ animation_frame_counter' = 0
    /\ last_key' = 49
    /\ ticks' = 0
    /\ UNCHANGED current_palette
    /\ UNCHANGED engineVars

\* _key_handler(50), lines 488-498
Key2 ==
    /\ LoopRuns
    /\ show_solution' = TRUE
    /\ is_animating' = TRUE
    /\ animation_progress' = 0
    /\ animation_frame_counter' = 0
    /\ last_key' = 50
    /\ ticks' = 0
    /\ UNCHANGED <<solution_path, current_palette>>
    /\ UNCHANGED engineVars

\* _key_handler(51), lines 501-505
Key3 ==
    /\ LoopRuns
    /\ current_palette' = (current_palette + 1) % Len(palettes)
    /\ last_key' = 51
    /\ ticks' = 0
    /\ UNCHANGED <<solution_path, show_solution, is_animating,
                   animation_progress, animation_frame_counter>>
    /\ UNCHANGED engineVars

\* _key_handler, lines 508-513: '4', ESC, or a key without a binding
KeyOther ==
    /\ LoopRuns
    /\ last_key' \in {52, 65307, 53}
    /\ ticks' = 0
    /\ UNCHANGED <<solution_path, show_solution, is_animating,
                   animation_progress, animation_frame_counter,
                   current_palette>>
    /\ UNCHANGED engineVars

\* A loop hook that steps on without ever stopping.
Tick_NoStop ==
    /\ LoopRuns
    /\ ticks < MaxTicks
    /\ ticks' = ticks + 1
    /\ animation_progress' = IF is_animating THEN animation_progress + 1
                             ELSE animation_progress
    /\ UNCHANGED <<solution_path, show_solution, is_animating,
                   animation_frame_counter, current_palette, last_key>>
    /\ UNCHANGED engineVars

\* _update_animation(), lines 445-459
Tick ==
    /\ LoopRuns
    /\ ticks < MaxTicks
    /\ ticks' = ticks + 1
    /\ IF ~is_animating
       THEN UNCHANGED <<is_animating, animation_progress>>
       ELSE IF animation_progress + 1 >= Len(solution_path)
       THEN /\ is_animating' = FALSE
            /\ animation_progress' = Len(solution_path)
       ELSE /\ is_animating' = TRUE
            /\ animation_progress' = animation_progress + 1
    /\ UNCHANGED <<solution_path, show_solution, animation_frame_counter,
                   current_palette, last_key>>
    /\ UNCHANGED engineVars

NextVisualizer ==
    \/ Key1
    \/ Key2
    \/ Key3
    \/ KeyOther
    \/ Tick

VisualizerSpec == InitVisualizer /\ [][NextVisualizer]_vars

====
